---- MODULE Spec2Model ----
(***************************************************************************)
(* Model of libraries/CopadoRoboticTestingAPI.py: the session-header cache *)
(* (_cached_headers), the CSRF/XSRF bootstrap, the commit-hash lookup and  *)
(* the single-file and multi-file upload.                                  *)
(*                                                                         *)
(* Text is modelled as sequences of one-character strings so that the      *)
(* cookie parser and the path helpers work on characters as the code does. *)
(* Every blocking HTTP call splits a handler in two steps: the step that   *)
(* sends the request and the step that consumes the response.              *)
(***************************************************************************)
EXTENDS Integers, Sequences, FiniteSets, TLC

\* Python None; every modelled value is a tuple, so None is one too
None == <<"<None>">>
\* None where the value would otherwise be a list of strings
NoneList == <<None>>
PyTrue == <<"True">>
PyFalse == <<"False">>

\* ------------------------------------------------------------------ text
RECURSIVE Concat(_)
Concat(ss) == IF ss = <<>> THEN <<>> ELSE Head(ss) \o Concat(Tail(ss))

Contains(s, ch) == \E i \in 1..Len(s) : s[i] = ch

\* index of the first occurrence of ch in s, 0 when there is none
FirstIndex(s, ch) ==
    IF Contains(s, ch) THEN CHOOSE i \in 1..Len(s) : s[i] = ch /\ \A j \in 1..(i-1) : s[j] # ch
    ELSE 0

\* index of the last occurrence of ch in s, 0 when there is none
LastIndex(s, ch) ==
    IF Contains(s, ch) THEN CHOOSE i \in 1..Len(s) : s[i] = ch /\ \A j \in (i+1)..Len(s) : s[j] # ch
    ELSE 0

\* str.split(ch): all the pieces, empty ones included
RECURSIVE Split(_, _)
Split(s, ch) ==
    IF ~Contains(s, ch) THEN <<s>>
    ELSE LET i == FirstIndex(s, ch)
         IN  <<SubSeq(s, 1, i-1)>> \o Split(SubSeq(s, i+1, Len(s)), ch)

\* str.split(ch, 1): at most one split, on the first occurrence
SplitFirst(s, ch) ==
    IF ~Contains(s, ch) THEN <<s>>
    ELSE LET i == FirstIndex(s, ch)
         IN  <<SubSeq(s, 1, i-1), SubSeq(s, i+1, Len(s))>>

\* str.strip(): the model's only whitespace character is the blank
RECURSIVE LStrip(_)
LStrip(s) == IF s # <<>> /\ Head(s) = " " THEN LStrip(Tail(s)) ELSE s

RECURSIVE RStrip(_)
RStrip(s) == IF s # <<>> /\ s[Len(s)] = " " THEN RStrip(SubSeq(s, 1, Len(s)-1)) ELSE s

Strip(s) == RStrip(LStrip(s))

\* sep.join(parts)
RECURSIVE Join(_, _)
Join(sep, parts) ==
    IF parts = <<>> THEN <<>>
    ELSE IF Len(parts) = 1 THEN parts[1]
    ELSE parts[1] \o sep \o Join(sep, Tail(parts))

\* a dict assignment d[k] = v on a function
DictSet(d, k, v) == [n \in DOMAIN d \cup {k} |-> IF n = k THEN v ELSE d[n]]

\* dict.get(k): None when the key is absent
DictGet(d, k) == IF k \in DOMAIN d THEN d[k] ELSE None

EmptyDict == [n \in {} |-> <<>>]

\* an insertion-ordered dict literal is a tuple of <<key, value>> pairs
Item(d, k) == (CHOOSE i \in 1..Len(d) : d[i][1] = k)
HasKey(d, k) == \E i \in 1..Len(d) : d[i][1] = k
Lookup(d, k) == d[Item(d, k)][2]

\* Python truthiness of an Optional[str]
Truthy(v) == v # None /\ v # <<>>

\* ---------------------------------------------------------- cookie names
CsrfName == <<"_","p","a","c","e","-","c","s","r","f">>
XsrfName == <<"P","A","C","E","-","X","S","R","F","-","T","O","K","E","N">>
AppJson  == <<"a","p","p","l","i","c","a","t","i","o","n","/","j","s","o","n">>
Eq == <<"=">>
SemiSp == <<";"," ">>
CommaSp == <<","," ">>

\* ------------------------------------------------------- cookie parsing
\* A response, as far as Set-Cookie is concerned, is what the four access
\* paths of the transport expose:
\*   getList : response.headers.get_list('Set-Cookie'), NoneList without get_list
\*   single  : response.headers.get('Set-Cookie'), None when absent
\*   msg     : response.raw._original_response.msg.get_all(...), None if absent
\*   rawHdrs : response.raw._original_response.headers.get_all(...), or None
RECURSIVE ExtendNew(_, _)
ExtendNew(acc, hs) ==
    IF hs = <<>> THEN acc
    ELSE ExtendNew(IF \E i \in 1..Len(acc) : acc[i] = Head(hs) THEN acc
                   ELSE Append(acc, Head(hs)), Tail(hs))

GetAllSetCookieHeaders(resp) ==
    LET m1 == IF resp.getList # NoneList THEN resp.getList ELSE <<>>
        m2 == IF Truthy(resp.single) /\ ~(\E i \in 1..Len(m1) : m1[i] = resp.single)
              THEN Append(m1, resp.single) ELSE m1
        m3 == IF resp.msg # NoneList THEN ExtendNew(m2, resp.msg) ELSE m2
        m4 == IF resp.rawHdrs # NoneList THEN ExtendNew(m3, resp.rawHdrs) ELSE m3
    IN  m4

\* faulty variant: the name-value pair is split at every "="
ParsePart_SplitAll(cookies, part) ==
    LET cookie_part == Strip(part)
        name_value  == Split(cookie_part, ";")[1]
        nv          == Split(name_value, "=")
    IN  IF Contains(cookie_part, "=") /\ Contains(name_value, "=")
        THEN DictSet(cookies, Strip(nv[1]), Strip(nv[2]))
        ELSE cookies

\* one comma-separated part of one header value, folded into the dict
ParsePart(cookies, part) ==
    LET cookie_part == Strip(part)
        name_value  == Split(cookie_part, ";")[1]
        nv          == SplitFirst(name_value, "=")
    IN  IF Contains(cookie_part, "=") /\ Contains(name_value, "=")
        THEN DictSet(cookies, Strip(nv[1]), Strip(nv[2]))
        ELSE cookies

RECURSIVE ParseParts(_, _)
ParseParts(cookies, parts) ==
    IF parts = <<>> THEN cookies
    ELSE ParseParts(ParsePart(cookies, Head(parts)), Tail(parts))

RECURSIVE ParseHeaders(_, _)
ParseHeaders(cookies, hs) ==
    IF hs = <<>> THEN cookies
    ELSE ParseHeaders(IF Head(hs) # <<>> THEN ParseParts(cookies, Split(Head(hs), ","))
                      ELSE cookies, Tail(hs))

ParseCookiesFromSetCookieHeaders(resp) ==
    ParseHeaders(EmptyDict, GetAllSetCookieHeaders(resp))

\* ------------------------------------------ inputs of the cookie parser
MaxCookies == 3

AttrPath == <<";"," ","P","a","t","h","=","/">>

\* a cookie a server sets: its name, its value, the attributes that follow,
\* and whether it travels on a Set-Cookie line of its own or is appended,
\* after a comma, to the line of the cookie before it
CookieSpecs ==
    [name : {<<"a">>, <<"b">>}, value : {<<"1">>, <<"e","y",".","J","=","x">>}, attr : {<<>>, AttrPath}, sep : {"line", "comma"}]

RECURSIVE CookieSeqs(_)
CookieSeqs(n) ==
    IF n = 0 THEN {<<>>}
    ELSE LET shorter == CookieSeqs(n - 1)
         IN  shorter \cup { Append(cs, c) : cs \in {x \in shorter : Len(x) = n - 1},
                                            c \in {y \in CookieSpecs : n = 1 => y.sep = "line"} }

CookieText(c) == c.name \o Eq \o c.value \o c.attr

\* the Set-Cookie lines that carry the cookies cs
RECURSIVE SetCookieLines(_, _)
SetCookieLines(lines, cs) ==
    IF cs = <<>> THEN lines
    ELSE LET c == Head(cs)
         IN  SetCookieLines(IF c.sep = "comma" /\ lines # <<>>
                            THEN [lines EXCEPT ![Len(lines)] = @ \o CommaSp \o CookieText(c)]
                            ELSE Append(lines, CookieText(c)), Tail(cs))

\* the cookies a client holds after the server has set cs in this order
JarOf(cs) ==
    [n \in {cs[i].name : i \in 1..Len(cs)} |->
        cs[CHOOSE i \in 1..Len(cs) : cs[i].name = n /\ \A j \in (i+1)..Len(cs) : cs[j].name # n].value]

ExampleLines == <<<<"a","=","1",";"," ","P","a","t","h","=","/">>, <<"b","=","2",";"," ","S","e","c","u","r","e",","," ","c","=","3">>>>
ExampleJar == [n \in {<<"a">>, <<"b">>, <<"c">>} |-> IF n = <<"a">> THEN <<"1">> ELSE IF n = <<"b">> THEN <<"2">> ELSE <<"3">>]

\* raw header lists with the mapping the server meant by them, each handed
\* over by a transport with get_list and by the requests library
ParserInputs ==
    { [lines |-> l.lines, jar |-> l.jar, resp |-> r] :
        l \in { [lines |-> SetCookieLines(<<>>, cs), jar |-> JarOf(cs)] : cs \in CookieSeqs(MaxCookies) \ {<<>>} }
              \cup { [lines |-> ExampleLines, jar |-> ExampleJar] },
        r \in {"list", "wire"} }

\* raw values whose attributes carry a comma in their value: an Expires
\* date, and a Path with a comma followed by text with "="; each sets the one
\* cookie a=1
LineExpires == <<"a","=","1",";"," ","E","x","p","i","r","e","s","=","W","e","d",","," ","2","1"," ","O","c","t"," ","2","0","2","6"," ","0","7",":","2","8",":","0","0"," ","G","M","T",";"," ","P","a","t","h","=","/">>
LinePathComma == <<"a","=","1",";"," ","P","a","t","h","=","/","p",",","q","=","r",";"," ","S","e","c","u","r","e">>

AttrParserInputs ==
    { [lines |-> <<l>>, jar |-> [n \in {<<"a">>} |-> <<"1">>], resp |-> "list"] : l \in {LineExpires, LinePathComma} }

\* faulty variant: the header set is built and cached without requiring the token
RoboticHeaders_NoTokenCheck(token, cookies) ==
    LET csrf_cookie == DictGet(cookies, CsrfName)
        xsrf_token  == DictGet(cookies, XsrfName)
        cookie_parts == (IF Truthy(csrf_cookie) THEN <<CsrfName \o Eq \o csrf_cookie>> ELSE <<>>)
                        \o <<XsrfName \o Eq \o xsrf_token>>
    IN  << <<"Content-Type", AppJson>>,
           <<"X-Authorization", token>>,
           <<"Cookie", Join(SemiSp, cookie_parts)>>,
           <<"X-XSRF-TOKEN", xsrf_token>> >>

\* faulty variant: the Cookie header carries the token only, _pace-csrf is dropped
RoboticHeaders_NoCsrf(token, cookies) ==
    LET xsrf_token  == DictGet(cookies, XsrfName)
    IN  IF ~Truthy(xsrf_token) THEN None
        ELSE << <<"Content-Type", AppJson>>,
                <<"X-Authorization", token>>,
                <<"Cookie", XsrfName \o Eq \o xsrf_token>>,
                <<"X-XSRF-TOKEN", xsrf_token>> >>

\* ------------------------------------------------------ header derivation
\* the header set built from the parsed cookies; None without a truthy token
RoboticHeaders(token, cookies) ==
    LET csrf_cookie == DictGet(cookies, CsrfName)
        xsrf_token  == DictGet(cookies, XsrfName)
        cookie_parts == (IF Truthy(csrf_cookie) THEN <<CsrfName \o Eq \o csrf_cookie>> ELSE <<>>)
                        \o <<XsrfName \o Eq \o xsrf_token>>
    IN  IF ~Truthy(xsrf_token) THEN None
        ELSE << <<"Content-Type", AppJson>>,
                <<"X-Authorization", token>>,
                <<"Cookie", Join(SemiSp, cookie_parts)>>,
                <<"X-XSRF-TOKEN", xsrf_token>> >>

\* ------------------------------------------------------------ the model's
\* input catalogues (the environment: tokens, responses, local files)
Tokens == {<<"p","a","t","A">>}

LineX1     == <<"P","A","C","E","-","X","S","R","F","-","T","O","K","E","N","=","x","1",";"," ","P","a","t","h","=","/">>
LineC1     == <<"_","p","a","c","e","-","c","s","r","f","=","c","1",";"," ","P","a","t","h","=","/",";"," ","H","t","t","p","O","n","l","y">>
LineXEq    == <<"P","A","C","E","-","X","S","R","F","-","T","O","K","E","N","=","e","y",".","J","=","x",";"," ","S","e","c","u","r","e">>
LineCEmpty == <<"_","p","a","c","e","-","c","s","r","f","=",";"," ","M","a","x","-","A","g","e","=","0">>
LineXEmpty == <<"P","A","C","E","-","X","S","R","F","-","T","O","K","E","N","=">>
LineJoined == <<"_","p","a","c","e","-","c","s","r","f","=","c","2",";"," ","S","e","c","u","r","e",","," ","P","A","C","E","-","X","S","R","F","-","T","O","K","E","N","=","x","3">>

\* what the requests library exposes for a response carrying these
\* Set-Cookie lines: no get_list, the lines joined by ", " as the single
\* header, and the separate lines through the raw response
WireResponse(lines) ==
    [getList |-> NoneList,
     single  |-> IF lines = <<>> THEN None ELSE Join(CommaSp, lines),
     msg     |-> IF lines = <<>> THEN NoneList ELSE lines,
     rawHdrs |-> IF lines = <<>> THEN NoneList ELSE lines]

\* a transport that exposes only the combined header
SingleOnlyResponse(line) ==
    [getList |-> NoneList, single |-> line, msg |-> NoneList, rawHdrs |-> NoneList]

\* a transport whose header object has get_list
ListResponse(lines) ==
    [getList |-> lines, single |-> None, msg |-> NoneList, rawHdrs |-> NoneList]

\* The successful (2xx) bootstrap responses the model draws from.  csrf and
\* xsrf state what the server set: the value of each cookie, None when the
\* response does not carry the cookie at all.
BootOk ==
    { [hdrs |-> WireResponse(<<LineX1>>),            csrf |-> None,     xsrf |-> <<"x","1">>],
      [hdrs |-> WireResponse(<<LineC1, LineX1>>),    csrf |-> <<"c","1">>,   xsrf |-> <<"x","1">>],
      [hdrs |-> WireResponse(<<LineC1, LineXEq>>),   csrf |-> <<"c","1">>,   xsrf |-> <<"e","y",".","J","=","x">>],
      [hdrs |-> WireResponse(<<LineC1>>),            csrf |-> <<"c","1">>,   xsrf |-> None],
      [hdrs |-> WireResponse(<<>>),                  csrf |-> None,     xsrf |-> None],
      [hdrs |-> WireResponse(<<LineXEmpty>>),        csrf |-> None,     xsrf |-> <<>>],
      [hdrs |-> WireResponse(<<LineCEmpty, LineX1>>), csrf |-> <<>>,    xsrf |-> <<"x","1">>],
      [hdrs |-> SingleOnlyResponse(LineJoined),      csrf |-> <<"c","2">>,   xsrf |-> <<"x","3">>],
      [hdrs |-> ListResponse(<<LineC1, LineX1>>),    csrf |-> <<"c","1">>,   xsrf |-> <<"x","1">>] }

\* requests.RequestException raised by the call or by raise_for_status()
HttpErrors == {"HTTP401", "ConnectionError"}

\* a cookie the response sets to a non-empty value
Present(v) == v # None /\ v # <<>>

\* what went wrong with a bootstrap response, as the environment knows it
BootFailure(status, xsrf) ==
    IF status # "ok" THEN "request"
    ELSE IF ~Present(xsrf) THEN "notoken"
    ELSE "none"

\* ---------------------------------------------------------- local files
UpperCase == <<"A","B","C","D","E","F","G","H","I","J","K","L","M",
               "N","O","P","Q","R","S","T","U","V","W","X","Y","Z">>
LowerCase == <<"a","b","c","d","e","f","g","h","i","j","k","l","m",
               "n","o","p","q","r","s","t","u","v","w","x","y","z">>

\* str.lower()
Lower(s) == [i \in 1..Len(s) |->
               IF \E k \in 1..26 : UpperCase[k] = s[i]
               THEN LowerCase[CHOOSE k \in 1..26 : UpperCase[k] = s[i]]
               ELSE s[i]]

\* os.path.basename
Basename(p) == SubSeq(p, LastIndex(p, "/") + 1, Len(p))

\* os.path.splitext(p)[1]: from the last dot of the base name, empty when
\* the base name has no dot or only leading dots
Splitext(p) ==
    LET b == Basename(p)
        i == LastIndex(b, ".")
    IN  IF i = 0 \/ (\A j \in 1..i : b[j] = ".") THEN <<>> ELSE SubSeq(b, i, Len(b))

BINARY_EXTENSIONS ==
    { <<".","x","l","s","x">>, <<".","x","l","s">>, <<".","x","l","s","m">>, <<".","x","l","s","b">>,
      <<".","d","o","c","x">>, <<".","d","o","c">>, <<".","d","o","c","m">>,
      <<".","p","p","t","x">>, <<".","p","p","t">>, <<".","p","p","t","m">>,
      <<".","p","d","f">>,
      <<".","z","i","p">>, <<".","r","a","r">>, <<".","7","z">>,
      <<".","j","p","g">>, <<".","j","p","e","g">>, <<".","p","n","g">>, <<".","g","i","f">>, <<".","b","m","p">>, <<".","t","i","f","f">>,
      <<".","m","p","3">>, <<".","w","a","v">>, <<".","m","p","4">>, <<".","a","v","i">>,
      <<".","e","x","e">>, <<".","d","l","l">>, <<".","s","o">>,
      <<".","j","a","r">>, <<".","w","a","r">>,
      <<".","b","i","n">>, <<".","d","a","t">> }

TextSlash == <<"t","e","x","t","/">>
MimeJson  == <<"a","p","p","l","i","c","a","t","i","o","n","/","j","s","o","n">>

StartsWith(s, pre) == Len(s) >= Len(pre) /\ SubSeq(s, 1, Len(pre)) = pre

\* The local file system the model runs against.  For each path: whether
\* the file exists, what mimetypes.guess_type answers for the path, whether
\* the first 1024 characters and the whole file decode as UTF-8, and a tag
\* standing for the bytes.
PathXlsx == <<"o","u","t","/","r","e","p","o","r","t",".","x","l","s","x">>
PathTxt  == <<"n","o","t","e","s",".","t","x","t">>
PathGone == <<"g","o","n","e",".","t","x","t">>
PathBad  == <<"b","a","d",".","t","x","t">>
PathLate == <<"l","a","t","e",".","t","x","t">>
PathJson == <<"c","f","g","/","d","a","t","a",".","j","s","o","n">>

FileSystem ==
    { [path |-> PathXlsx, exists |-> TRUE,  mime |-> <<"a","p","p","l","i","c","a","t","i","o","n","/","v","n","d",".","m","s","-","e","x","c","e","l">>, prefixOk |-> FALSE, fullOk |-> FALSE, data |-> "xlsx-bytes"],
      [path |-> PathTxt,  exists |-> TRUE,  mime |-> <<"t","e","x","t","/","p","l","a","i","n">>, prefixOk |-> TRUE,  fullOk |-> TRUE,  data |-> "notes"],
      [path |-> PathGone, exists |-> FALSE, mime |-> <<"t","e","x","t","/","p","l","a","i","n">>, prefixOk |-> FALSE, fullOk |-> FALSE, data |-> "nothing"],
      [path |-> PathBad,  exists |-> TRUE,  mime |-> <<"t","e","x","t","/","p","l","a","i","n">>, prefixOk |-> FALSE, fullOk |-> FALSE, data |-> "latin1"],
      [path |-> PathLate, exists |-> TRUE,  mime |-> <<"t","e","x","t","/","p","l","a","i","n">>, prefixOk |-> TRUE,  fullOk |-> FALSE, data |-> "late-bad"],
      [path |-> PathJson, exists |-> TRUE,  mime |-> MimeJson,       prefixOk |-> TRUE,  fullOk |-> TRUE,  data |-> "json"] }

File(p) == CHOOSE f \in FileSystem : f.path = p

\* os.path.exists
Exists(p) == File(p).exists

\* faulty variant: the extension is compared as written, without lower()
ClassifyStage_CaseSensitive(f, force_binary) ==
    IF force_binary # None THEN "force"
    ELSE IF Splitext(f.path) \in BINARY_EXTENSIONS THEN "ext"
    ELSE IF Truthy(f.mime) /\ ~StartsWith(f.mime, TextSlash) /\ f.mime # MimeJson THEN "mime"
    ELSE "read"

\* the test of _is_binary_file that decides for file f: the override (lines
\* 405-406), the extension (409-411), the MIME type (414-417) or the trial
\* read (420-425).  force_binary is None, PyTrue or PyFalse.
ClassifyStage(f, force_binary) ==
    IF force_binary # None THEN "force"
    ELSE IF Splitext(Lower(f.path)) \in BINARY_EXTENSIONS THEN "ext"
    ELSE IF Truthy(f.mime) /\ ~StartsWith(f.mime, TextSlash) /\ f.mime # MimeJson THEN "mime"
    ELSE "read"

\* _is_binary_file on a file that can be opened
IsBinary(f, force_binary) ==
    CASE ClassifyStage(f, force_binary) = "force" -> force_binary = PyTrue
      [] ClassifyStage(f, force_binary) = "read" -> ~f.prefixOk
      [] OTHER -> TRUE

IsBinaryFile(file_path, force_binary) == IsBinary(File(file_path), force_binary)

FileNotFoundError == <<"F","i","l","e","N","o","t","F","o","u","n","d","E","r","r","o","r">>

\* _is_binary_file on any path: open() of the trial read raises when the
\* file does not exist
IsBinaryFileResult(f, force_binary) ==
    IF ClassifyStage(f, force_binary) = "read" /\ ~f.exists THEN FileNotFoundError
    ELSE IF IsBinary(f, force_binary) THEN PyTrue ELSE PyFalse

\* ------------------------------------------ inputs of the classifier
\* paths with, for each, whether its extension is one of BINARY_EXTENSIONS
\* when letter case is ignored
ClassifierPaths ==
    { [path |-> <<"a",".","x","l","s","x">>, binExt |-> TRUE], [path |-> <<"Q",".","X","L","S">>, binExt |-> TRUE],
      [path |-> <<"o","u","t","/","R",".","P","d","f">>, binExt |-> TRUE], [path |-> <<"x",".","t","a","r",".","g","z">>, binExt |-> FALSE],
      [path |-> <<"n","o","t","e","s",".","t","x","t">>, binExt |-> FALSE], [path |-> <<".","b","i","n">>, binExt |-> FALSE],
      [path |-> <<"d",".","z","i","p","/","r","e","a","d","m","e">>, binExt |-> FALSE], [path |-> <<"a",".","d","a","t",".","t","x","t">>, binExt |-> FALSE] }

ClassifierMimes == {None, <<"t","e","x","t","/","p","l","a","i","n">>, MimeJson, <<"i","m","a","g","e","/","p","n","g">>}

\* every path with every answer of mimetypes.guess_type, present or not, its
\* first characters UTF-8 or not, and every override
ClassifierInputs ==
    { [file |-> [path |-> p.path, exists |-> e, mime |-> m, prefixOk |-> ok, fullOk |-> ok, data |-> "bytes"],
       binExt |-> p.binExt, force |-> fb] :
        p \in ClassifierPaths, e \in BOOLEAN, m \in ClassifierMimes, ok \in BOOLEAN, fb \in {None, PyTrue, PyFalse} }

EncBase64 == <<"b","a","s","e","6","4">>
EncUtf8   == <<"u","t","f","-","8">>
OpReplace == <<"r","e","p","l","a","c","e">>

\* faulty variant: a text-mode read that cannot decode the file falls back
\* to the binary read
ReadFileContent_Fallback(file_path, is_binary) ==
    LET f == File(file_path)
    IN  IF is_binary THEN [ok |-> TRUE, content |-> <<"b64", f.data>>, encoding |-> EncBase64]
        ELSE IF f.fullOk THEN [ok |-> TRUE, content |-> <<"text", f.data>>, encoding |-> EncUtf8]
        ELSE [ok |-> TRUE, content |-> <<"b64", f.data>>, encoding |-> EncBase64]

\* (content, encoding), or the UnicodeDecodeError of the text-mode read
ReadFileContent(file_path, is_binary) ==
    LET f == File(file_path)
    IN  IF is_binary THEN [ok |-> TRUE, content |-> <<"b64", f.data>>, encoding |-> EncBase64]
        ELSE IF f.fullOk THEN [ok |-> TRUE, content |-> <<"text", f.data>>, encoding |-> EncUtf8]
        ELSE [ok |-> FALSE, content |-> <<"text", f.data>>, encoding |-> EncUtf8]

\* one entry of the operations list
Operation(encoding_type, repository_path, file_content) ==
    << <<"encoding", encoding_type>>, <<"op", OpReplace>>,
       <<"path", repository_path>>, <<"value", file_content>> >>

\* -------------------------------------------------------------- requests
Main      == <<"m","a","i","n">>
StrTrue   == <<"t","r","u","e">>
Author    == << <<"name", <<"b","o","t">>>>, <<"email", <<"b","o","t","@","x">>>> >>
CommitMsg == <<"m","s","g">>

NoReq == [kind |-> "none"]

\* GET {base_url}/projects/{project_id}/robots with the token only
BootReq(tok) ==
    [kind |-> "boot", url |-> "robots",
     headers |-> << <<"Cookie", <<>> >>, <<"X-Authorization", tok>> >>,
     params |-> <<>>, body |-> None]

\* GET .../jobs/{job_id}/files?branch=main&sharedCredentials=true
FilesGet(h) ==
    [kind |-> "get", url |-> "files", headers |-> h,
     params |-> << <<"branch", Main>>, <<"sharedCredentials", StrTrue>> >>,
     body |-> None]

\* faulty variant: the upload is sent without the X-XSRF-TOKEN header
UploadReq_DropToken(h, operations, parent_commit_hash) ==
    [kind |-> "post", url |-> "files/upload", headers |-> SubSeq(h, 1, 3),
     params |-> << <<"branch", Main>> >>,
     body |-> << <<"author", Author>>, <<"commitMessage", CommitMsg>>,
                 <<"operations", operations>>,
                 <<"parentCommitHash", parent_commit_hash>> >>]

\* POST .../jobs/{job_id}/files/upload?branch=main
UploadReq(h, operations, parent_commit_hash) ==
    [kind |-> "post", url |-> "files/upload", headers |-> h,
     params |-> << <<"branch", Main>> >>,
     body |-> << <<"author", Author>>, <<"commitMessage", CommitMsg>>,
                 <<"operations", operations>>,
                 <<"parentCommitHash", parent_commit_hash>> >>]

\* ------------------------------------------------- results of a handler
Ret(v)   == [kind |-> "return", val |-> v]
Raise(e) == [kind |-> "raise", val |-> <<e>>]
Pending  == [kind |-> "pending", val |-> None]

\* What a caller does in one step, up to its next blocking request or its
\* return: where it stands afterwards (pc), the request it sent, its result,
\* its local headers variable, the parent hash it has resolved, and whether
\* the step invoked _get_robotic_headers (gh).
Done(r, h, par) ==
    [pc |-> "done", req |-> NoReq, ret |-> r, hdr |-> h, parent |-> par, gh |-> FALSE]
Send(rq, h, par) ==
    [pc |-> rq.kind, req |-> rq, ret |-> Pending, hdr |-> h, parent |-> par, gh |-> FALSE]

\* faulty variant: missing files are not skipped
RECURSIVE BuildOperations_NoSkip(_, _)
BuildOperations_NoSkip(file_operations, operations) ==
    IF file_operations = <<>> THEN [ok |-> TRUE, ops |-> operations]
    ELSE LET file_op   == Head(file_operations)
             repo_path == IF file_op.repo_path = None THEN Basename(file_op.local_path)
                          ELSE file_op.repo_path
             rd        == ReadFileContent(file_op.local_path,
                                          IsBinaryFile(file_op.local_path, file_op.force_binary))
         IN  IF ~rd.ok THEN [ok |-> FALSE, ops |-> operations]
             ELSE BuildOperations_NoSkip(Tail(file_operations),
                     Append(operations, Operation(rd.encoding, repo_path, rd.content)))

\* the loop of save_multiple_files over file_operations; a batch entry is
\* [local_path, repo_path, force_binary], repo_path None when the key is absent
RECURSIVE BuildOperations(_, _)
BuildOperations(file_operations, operations) ==
    IF file_operations = <<>> THEN [ok |-> TRUE, ops |-> operations]
    ELSE LET file_op   == Head(file_operations)
             repo_path == IF file_op.repo_path = None THEN Basename(file_op.local_path)
                          ELSE file_op.repo_path
             rd        == ReadFileContent(file_op.local_path,
                                          IsBinaryFile(file_op.local_path, file_op.force_binary))
         IN  IF ~Exists(file_op.local_path)
             THEN BuildOperations(Tail(file_operations), operations)
             ELSE IF ~rd.ok THEN [ok |-> FALSE, ops |-> operations]
             ELSE BuildOperations(Tail(file_operations),
                     Append(operations, Operation(rd.encoding, repo_path, rd.content)))

\* faulty variant: the repository path defaults to the whole local path
SaveOperation_FullPath(a) ==
    LET rd == ReadFileContent(a.path, IsBinaryFile(a.path, a.force))
        repository_path == IF a.repo = None THEN a.path ELSE a.repo
    IN  Operation(rd.encoding, repository_path, rd.content)

\* the single operation of save_file
SaveOperation(a) ==
    LET rd == ReadFileContent(a.path, IsBinaryFile(a.path, a.force))
        repository_path == IF a.repo = None THEN Basename(a.path) ELSE a.repo
    IN  Operation(rd.encoding, repository_path, rd.content)

\* faulty variant: an empty operations list is uploaded all the same
WithHeaders_PostEmpty(o, a, par, h) ==
    CASE o = "headers" -> Done(Ret(h), h, par)
      [] o \in {"hash", "branch"} -> Send(FilesGet(h), h, par)
      [] o = "save" ->
            IF par = None THEN Send(FilesGet(h), h, par)
            ELSE Send(UploadReq(h, <<SaveOperation(a)>>, par), h, par)
      [] o = "multi" ->
            IF par = None THEN Send(FilesGet(h), h, par)
            ELSE LET b == BuildOperations(a.batch, <<>>)
                 IN  IF ~b.ok THEN Done(Raise("UnicodeDecodeError"), h, par)
                     ELSE Send(UploadReq(h, b.ops, par), h, par)

\* the code that follows a successful `headers = self._get_robotic_headers()`
\* in operation o, with arguments a and resolved parent hash par
WithHeaders(o, a, par, h) ==
    CASE o = "headers" -> Done(Ret(h), h, par)
      [] o \in {"hash", "branch"} -> Send(FilesGet(h), h, par)
      [] o = "save" ->
            IF par = None THEN Send(FilesGet(h), h, par)
            ELSE Send(UploadReq(h, <<SaveOperation(a)>>, par), h, par)
      [] o = "multi" ->
            IF par = None THEN Send(FilesGet(h), h, par)
            ELSE LET b == BuildOperations(a.batch, <<>>)
                 IN  IF ~b.ok THEN Done(Raise("UnicodeDecodeError"), h, par)
                     ELSE IF b.ops = <<>> THEN Done(Ret(PyFalse), h, par)
                     ELSE Send(UploadReq(h, b.ops, par), h, par)

\* faulty variant: a missing session is raised as an error
NoHeaders_Raise(o, par) ==
    Done(Raise("RequestException"), None, par)

\* the `if not headers:` branch of operation o
NoHeaders(o, par) ==
    Done(Ret(IF o \in {"headers", "hash", "branch"} THEN None ELSE PyFalse), None, par)

\* faulty variant: the cache is never consulted, every call bootstraps
GetRoboticHeaders_NoCache(c, tok, o, a, par) ==
    [Send(BootReq(tok), None, par) EXCEPT !.gh = TRUE]

\* faulty variant: an empty cache is reported as a failure instead of bootstrapping
GetRoboticHeaders_NoFetch(c, tok, o, a, par) ==
    [(IF c # None THEN WithHeaders(o, a, par, c) ELSE NoHeaders(o, par))
        EXCEPT !.gh = TRUE]

\* _get_robotic_headers up to its return or its bootstrap request, called
\* with the cache holding c
GetRoboticHeaders(c, tok, o, a, par) ==
    [(IF c # None THEN WithHeaders(o, a, par, c) ELSE Send(BootReq(tok), None, par))
        EXCEPT !.gh = TRUE]

\* save_file from the classification of the file on (lines 489-501)
SaveFileTail(c, tok, a, par) ==
    IF ~ReadFileContent(a.path, IsBinaryFile(a.path, a.force)).ok
    THEN Done(Raise("UnicodeDecodeError"), None, par)
    ELSE GetRoboticHeaders(c, tok, "save", a, par)

\* faulty variant: the upload is based on a remembered hash, not on the one
\* the lookup just returned
AfterHash_StaleParent(c, tok, o, a, h, commit_hash) ==
    CASE o = "hash" -> Done(Ret(commit_hash), h, None)
      [] o = "save" ->
            IF commit_hash = None THEN Done(Ret(PyFalse), h, None)
            ELSE SaveFileTail(c, tok, a, <<"h","0">>)
      [] o = "multi" ->
            IF commit_hash = None THEN Done(Ret(PyFalse), h, None)
            ELSE GetRoboticHeaders(c, tok, "multi", a, <<"h","0">>)

\* the caller of get_latest_commit_hash once it has returned commit_hash
AfterHash(c, tok, o, a, h, commit_hash) ==
    CASE o = "hash" -> Done(Ret(commit_hash), h, None)
      [] o = "save" ->
            IF commit_hash = None THEN Done(Ret(PyFalse), h, None)
            ELSE SaveFileTail(c, tok, a, commit_hash)
      [] o = "multi" ->
            IF commit_hash = None THEN Done(Ret(PyFalse), h, None)
            ELSE GetRoboticHeaders(c, tok, "multi", a, commit_hash)

\* faulty variant: the parent hash is resolved before the file is looked for
SaveFile_LookupFirst(c, tok, a) ==
    IF a.parentArg = None THEN GetRoboticHeaders(c, tok, "save", a, None)
    ELSE IF ~Exists(a.path) THEN Done(Raise("FileNotFoundError"), None, None)
    ELSE SaveFileTail(c, tok, a, a.parentArg)

\* save_file from its first line
SaveFile(c, tok, a) ==
    IF ~Exists(a.path) THEN Done(Raise("FileNotFoundError"), None, None)
    ELSE IF a.parentArg = None THEN GetRoboticHeaders(c, tok, "save", a, None)
    ELSE SaveFileTail(c, tok, a, a.parentArg)

\* save_multiple_files from its first line
SaveMultipleFiles(c, tok, a) == GetRoboticHeaders(c, tok, "multi", a, a.parentArg)

\* ------------------------------------------- responses of the files GET
HashA == <<"h","1">>
HashB == <<"h","2">>
Hash0 == <<"h","0">>

BranchOf(commit_hash) == << <<"name", Main>>, <<"commitHash", commit_hash>> >>
BranchNoHash == << <<"name", Main>>, <<"protected", StrTrue>> >>

\* status "ok" is a 2xx response.  json says whether response.json() parses
\* the body; when it does not, jsonErr is the class the installed requests
\* raises: "JSONDecodeError" is requests.exceptions.JSONDecodeError (a
\* RequestException and a ValueError), "ValueError" the plain ValueError of
\* older releases.  shape is the JSON type of a parsed body ("array" stands
\* for every body that is valid JSON but no object), and hash is the commit
\* hash the server put under branch.commitHash, None when it put none.
GetResponses ==
    { [status |-> "ok", json |-> TRUE, jsonErr |-> "none", shape |-> "object", hash |-> h, data |-> << <<"branch", BranchOf(h)>>, <<"files", <<>> >> >>] : h \in {HashA, HashB, None} }
    \cup { [status |-> "ok", json |-> TRUE, jsonErr |-> "none", shape |-> "object", hash |-> None, data |-> << <<"branch", BranchNoHash>>, <<"files", <<>> >> >>],
           [status |-> "ok", json |-> TRUE, jsonErr |-> "none", shape |-> "object", hash |-> None, data |-> << <<"files", <<>> >>, <<"total", <<>> >> >>],
           [status |-> "ok", json |-> TRUE, jsonErr |-> "none", shape |-> "array", hash |-> None, data |-> <<>>] }
    \cup { [status |-> "ok", json |-> FALSE, jsonErr |-> e, shape |-> "none", hash |-> None, data |-> <<>>] : e \in {"JSONDecodeError", "ValueError"} }
    \cup { [status |-> s, json |-> FALSE, jsonErr |-> "none", shape |-> "none", hash |-> None, data |-> <<>>] : s \in HttpErrors }

\* faulty variant: a failed request leaves the cached headers in place
LatestCommitHashResult_KeepCache(resp) ==
    IF resp.status # "ok" THEN [clear |-> FALSE, res |-> Raise("RequestException")]
    ELSE IF ~resp.json
         THEN IF resp.jsonErr = "JSONDecodeError"
              THEN [clear |-> TRUE, res |-> Raise("RequestException")]
              ELSE [clear |-> FALSE, res |-> Raise("ValueError")]
    ELSE IF resp.shape # "object"
         THEN [clear |-> FALSE, res |-> Raise("TypeError")]
    ELSE IF ~HasKey(resp.data, "branch") \/ ~HasKey(Lookup(resp.data, "branch"), "commitHash")
         THEN [clear |-> FALSE, res |-> Raise("KeyError")]
    ELSE [clear |-> FALSE, res |-> Ret(Lookup(Lookup(resp.data, "branch"), "commitHash"))]

\* faulty variant: a parse failure empties the cache as a request failure does
LatestCommitHashResult_ClearOnParse(resp) ==
    IF resp.status # "ok" THEN [clear |-> TRUE, res |-> Raise("RequestException")]
    ELSE IF ~resp.json
         THEN [clear |-> TRUE, res |-> Raise(IF resp.jsonErr = "JSONDecodeError" THEN "RequestException" ELSE "ValueError")]
    ELSE IF resp.shape # "object"
         THEN [clear |-> FALSE, res |-> Raise("TypeError")]
    ELSE IF ~HasKey(resp.data, "branch") \/ ~HasKey(Lookup(resp.data, "branch"), "commitHash")
         THEN [clear |-> TRUE, res |-> Raise("KeyError")]
    ELSE [clear |-> FALSE, res |-> Ret(Lookup(Lookup(resp.data, "branch"), "commitHash"))]

\* lines 317-342 of get_latest_commit_hash on a response: the result, and
\* whether _cached_headers is set to None.  data["branch"] on a body that is
\* no JSON object raises TypeError, which no handler of the function catches.
LatestCommitHashResult(resp) ==
    IF resp.status # "ok" THEN [clear |-> TRUE, res |-> Raise("RequestException")]
    ELSE IF ~resp.json
         THEN IF resp.jsonErr = "JSONDecodeError"
              THEN [clear |-> TRUE, res |-> Raise("RequestException")]
              ELSE [clear |-> FALSE, res |-> Raise("ValueError")]
    ELSE IF resp.shape # "object"
         THEN [clear |-> FALSE, res |-> Raise("TypeError")]
    ELSE IF ~HasKey(resp.data, "branch") \/ ~HasKey(Lookup(resp.data, "branch"), "commitHash")
         THEN [clear |-> FALSE, res |-> Raise("KeyError")]
    ELSE [clear |-> FALSE, res |-> Ret(Lookup(Lookup(resp.data, "branch"), "commitHash"))]

\* lines 373-392 of get_branch_info on a response: the handler catches
\* RequestException, KeyError and ValueError, so the TypeError of
\* data["branch"] on a body that is no JSON object leaves the function
BranchInfoResult(resp) ==
    IF resp.status # "ok" \/ ~resp.json
    THEN [clear |-> TRUE, res |-> Ret(None)]
    ELSE IF resp.shape # "object"
    THEN [clear |-> FALSE, res |-> Raise("TypeError")]
    ELSE IF ~HasKey(resp.data, "branch")
    THEN [clear |-> TRUE, res |-> Ret(None)]
    ELSE [clear |-> FALSE, res |-> Ret(Lookup(resp.data, "branch"))]

\* what went wrong with a response, as the environment knows it
GetFailure(resp) ==
    IF resp.status # "ok" THEN "request"
    ELSE IF ~resp.json THEN "parse"
    ELSE IF resp.shape # "object" THEN "type"
    ELSE IF ~HasKey(resp.data, "branch") THEN "parse"
    ELSE IF ~HasKey(Lookup(resp.data, "branch"), "commitHash") THEN "nohash"
    ELSE "none"

\* ------------------------------------------------------ call arguments
MaxBatch == 3

Repo == <<"r","/","x">>

NoArgs == [path |-> None, repo |-> None, force |-> None, batch |-> <<>>, parentArg |-> None]

Paths == {f.path : f \in FileSystem}

SaveArgs ==
    { [path |-> p, repo |-> r, force |-> fb, batch |-> <<>>, parentArg |-> ph] :
        p \in Paths, r \in {None, Repo}, fb \in {None, PyTrue, PyFalse}, ph \in {None, Hash0} }

BatchEntries ==
    { [local_path |-> PathXlsx, repo_path |-> None, force_binary |-> None],
      [local_path |-> PathTxt,  repo_path |-> Repo, force_binary |-> None],
      [local_path |-> PathGone, repo_path |-> None, force_binary |-> None],
      [local_path |-> PathBad,  repo_path |-> None, force_binary |-> PyFalse] }

RECURSIVE SeqsUpTo(_, _)
SeqsUpTo(S, n) ==
    IF n = 0 THEN {<<>>}
    ELSE LET shorter == SeqsUpTo(S, n - 1)
         IN  shorter \cup {Append(s, x) : s \in shorter, x \in S}

MultiArgs ==
    { [path |-> None, repo |-> None, force |-> None, batch |-> b, parentArg |-> ph] :
        b \in SeqsUpTo(BatchEntries, MaxBatch), ph \in {None, Hash0} }

\* ------------------------------------------------------------- the state
Callers == {1}

VARIABLES
    token,      \* self.personal_access_token
    cached,     \* self._cached_headers
    pc,         \* per caller: "idle", the request it waits on ("boot", "get",
                \* "post"), or "done" when its operation has produced its result
    op,         \* per caller: the public operation it is in
    args,       \* per caller: the arguments of that operation
    hdr,        \* per caller: the local variable `headers`
    parent,     \* per caller: the local variable parent_commit_hash
    inflight,   \* per caller: the request it has sent and not yet seen answered
    ret,        \* per caller: the result of its last operation
    cnt,        \* per caller: the requests sent so far by its current operation
    cause,      \* history: how the cache was last emptied: "init", "clear", the
                \* failed status of a request, or "parse"
    handshake,  \* history: the cookies of the response the cache was last filled from
    ev,         \* history: what the last step did
    pure        \* a helper function applied on its own: its argument and result

clientVars == <<token, cached, pc, op, args, hdr, parent, inflight, ret, cnt, cause, handshake, ev>>

vars == <<token, cached, pc, op, args, hdr, parent, inflight, ret, cnt, cause, handshake, ev, pure>>

Zero == [boot |-> 0, get |-> 0, post |-> 0]

Bump(c, kind) ==
    CASE kind = "boot" -> [c EXCEPT !.boot = @ + 1]
      [] kind = "get"  -> [c EXCEPT !.get = @ + 1]
      [] kind = "post" -> [c EXCEPT !.post = @ + 1]
      [] OTHER -> c

NoRecv == [req |-> "none", status |-> "none", fail |-> "none", hash |-> None]

\* no helper function is being applied on its own
NoPure == [fn |-> "none", arg |-> <<>>, done |-> FALSE, out |-> <<>>]

\* the client after __init__, with the callers in S about to use it
Start(S) ==
    /\ token \in Tokens
    /\ cached = None
    /\ pc = [t \in S |-> "idle"]
    /\ op = [t \in S |-> "none"]
    /\ args = [t \in S |-> NoArgs]
    /\ hdr = [t \in S |-> None]
    /\ parent = [t \in S |-> None]
    /\ inflight = [t \in S |-> NoReq]
    /\ ret = [t \in S |-> Pending]
    /\ cnt = [t \in S |-> Zero]
    /\ cause = "init"
    /\ handshake = [csrf |-> None, xsrf |-> None]
    /\ ev = [t |-> 0, call |-> "none", gh |-> FALSE, recv |-> NoRecv]

Init == Start(Callers) /\ pure = NoPure

\* caller t moves on as k says; base is the request count k adds to
Apply(t, k, base) ==
    /\ pc' = [pc EXCEPT ![t] = k.pc]
    /\ hdr' = [hdr EXCEPT ![t] = k.hdr]
    /\ parent' = [parent EXCEPT ![t] = k.parent]
    /\ inflight' = [inflight EXCEPT ![t] = k.req]
    /\ ret' = [ret EXCEPT ![t] = k.ret]
    /\ cnt' = [cnt EXCEPT ![t] = Bump(base, k.req.kind)]

\* caller t starts operation o with arguments a
Call(t, o, a, k) ==
    /\ pc[t] = "idle"
    /\ op' = [op EXCEPT ![t] = o]
    /\ args' = [args EXCEPT ![t] = a]
    /\ Apply(t, k, Zero)
    /\ ev' = [t |-> t, call |-> o, gh |-> k.gh, recv |-> NoRecv]
    /\ UNCHANGED <<token, cached, cause, handshake, pure>>

CallGetHeaders(t) ==
    Call(t, "headers", NoArgs, GetRoboticHeaders(cached, token, "headers", NoArgs, None))

CallGetLatestCommitHash(t) ==
    Call(t, "hash", NoArgs, GetRoboticHeaders(cached, token, "hash", NoArgs, None))

CallGetBranchInfo(t) ==
    Call(t, "branch", NoArgs, GetRoboticHeaders(cached, token, "branch", NoArgs, None))

CallSaveFile(t) ==
    \E a \in SaveArgs : Call(t, "save", a, SaveFile(cached, token, a))

CallSaveMultipleFiles(t) ==
    \E a \in MultiArgs : Call(t, "multi", a, SaveMultipleFiles(cached, token, a))

\* faulty variant: clearing toggles the cache, refilling an empty one from
\* the last handshake
ClearHeadersCache_Toggle(t) ==
    /\ pc[t] = "idle"
    /\ cached' = IF cached = None /\ handshake.xsrf # None
                 THEN RoboticHeaders(token, DictSet(EmptyDict, XsrfName, handshake.xsrf)) ELSE None
    /\ cause' = "clear"
    /\ op' = [op EXCEPT ![t] = "clear"]
    /\ args' = [args EXCEPT ![t] = NoArgs]
    /\ Apply(t, Done(Ret(None), None, None), Zero)
    /\ ev' = [t |-> t, call |-> "clear", gh |-> FALSE, recv |-> NoRecv]
    /\ UNCHANGED <<token, handshake, pure>>

ClearHeadersCache(t) ==
    /\ pc[t] = "idle"
    /\ cached' = None
    /\ cause' = "clear"
    /\ op' = [op EXCEPT ![t] = "clear"]
    /\ args' = [args EXCEPT ![t] = NoArgs]
    /\ Apply(t, Done(Ret(None), None, None), Zero)
    /\ ev' = [t |-> t, call |-> "clear", gh |-> FALSE, recv |-> NoRecv]
    /\ UNCHANGED <<token, handshake, pure>>

\* faulty variant: the cookies of a handshake are merged into those of the
\* handshake before, so a _pace-csrf the new response lacks is kept
BootAnswered_MergeJar(t, errors, oks) ==
    /\ pc[t] = "boot"
    /\ \/ \E e \in errors :
            /\ Apply(t, NoHeaders(op[t], parent[t]), cnt[t])
            /\ ev' = [t |-> t, call |-> "none", gh |-> FALSE,
                      recv |-> [req |-> "boot", status |-> e, fail |-> BootFailure(e, None), hash |-> None]]
            /\ UNCHANGED <<cached, cause, handshake>>
       \/ \E r \in oks :
            LET parsed == ParseCookiesFromSetCookieHeaders(r.hdrs)
                merged == IF CsrfName \notin DOMAIN parsed /\ Present(handshake.csrf)
                          THEN DictSet(parsed, CsrfName, handshake.csrf) ELSE parsed
                h == RoboticHeaders(token, merged)
            IN  /\ IF h = None
                   THEN /\ Apply(t, NoHeaders(op[t], parent[t]), cnt[t])
                        /\ UNCHANGED <<cached, handshake>>
                   ELSE /\ cached' = h
                        /\ handshake' = [csrf |-> r.csrf, xsrf |-> r.xsrf]
                        /\ Apply(t, WithHeaders(op[t], args[t], parent[t], h), cnt[t])
                /\ ev' = [t |-> t, call |-> "none", gh |-> FALSE,
                          recv |-> [req |-> "boot", status |-> "ok", fail |-> BootFailure("ok", r.xsrf), hash |-> None]]
                /\ UNCHANGED cause
    /\ UNCHANGED <<token, op, args, pure>>

\* faulty variant: a successful bootstrap stores its header set only when
\* the cache is still empty, and the caller goes on with whatever is cached
BootAnswered_KeepFirst(t, errors, oks) ==
    /\ pc[t] = "boot"
    /\ \/ \E e \in errors :
            /\ Apply(t, NoHeaders(op[t], parent[t]), cnt[t])
            /\ ev' = [t |-> t, call |-> "none", gh |-> FALSE,
                      recv |-> [req |-> "boot", status |-> e, fail |-> BootFailure(e, None), hash |-> None]]
            /\ UNCHANGED <<cached, cause, handshake>>
       \/ \E r \in oks :
            LET h == RoboticHeaders(token, ParseCookiesFromSetCookieHeaders(r.hdrs))
                c == IF cached = None THEN h ELSE cached
            IN  /\ IF h = None
                   THEN /\ Apply(t, NoHeaders(op[t], parent[t]), cnt[t])
                        /\ UNCHANGED <<cached, handshake>>
                   ELSE /\ cached' = c
                        /\ handshake' = [csrf |-> r.csrf, xsrf |-> r.xsrf]
                        /\ Apply(t, WithHeaders(op[t], args[t], parent[t], c), cnt[t])
                /\ ev' = [t |-> t, call |-> "none", gh |-> FALSE,
                          recv |-> [req |-> "boot", status |-> "ok", fail |-> BootFailure("ok", r.xsrf), hash |-> None]]
                /\ UNCHANGED cause
    /\ UNCHANGED <<token, op, args, pure>>

\* the bootstrap request of caller t is answered (lines 232-286), by one of
\* the failures in errors or one of the 2xx responses in oks
BootAnswered(t, errors, oks) ==
    /\ pc[t] = "boot"
    /\ \/ \E e \in errors :
            /\ Apply(t, NoHeaders(op[t], parent[t]), cnt[t])
            /\ ev' = [t |-> t, call |-> "none", gh |-> FALSE,
                      recv |-> [req |-> "boot", status |-> e, fail |-> BootFailure(e, None), hash |-> None]]
            /\ UNCHANGED <<cached, cause, handshake>>
       \/ \E r \in oks :
            LET h == RoboticHeaders(token, ParseCookiesFromSetCookieHeaders(r.hdrs))
            IN  /\ IF h = None
                   THEN /\ Apply(t, NoHeaders(op[t], parent[t]), cnt[t])
                        /\ UNCHANGED <<cached, handshake>>
                   ELSE /\ cached' = h
                        /\ handshake' = [csrf |-> r.csrf, xsrf |-> r.xsrf]
                        /\ Apply(t, WithHeaders(op[t], args[t], parent[t], h), cnt[t])
                /\ ev' = [t |-> t, call |-> "none", gh |-> FALSE,
                          recv |-> [req |-> "boot", status |-> "ok", fail |-> BootFailure("ok", r.xsrf), hash |-> None]]
                /\ UNCHANGED cause
    /\ UNCHANGED <<token, op, args, pure>>

BootResponse(t) == BootAnswered(t, HttpErrors, BootOk)

\* the files GET of caller t is answered by one of the responses in resps
GetAnswered(t, resps) ==
    /\ pc[t] = "get"
    /\ \E resp \in resps :
         LET r == IF op[t] = "branch" THEN BranchInfoResult(resp) ELSE LatestCommitHashResult(resp)
             c == IF r.clear THEN None ELSE cached
             k == IF op[t] = "branch" \/ r.res.kind = "raise" THEN Done(r.res, hdr[t], parent[t])
                  ELSE AfterHash(c, token, op[t], args[t], hdr[t], r.res.val)
         IN  /\ cached' = c
             /\ cause' = IF r.clear THEN (IF resp.status # "ok" THEN resp.status ELSE "parse") ELSE cause
             /\ Apply(t, k, cnt[t])
             /\ ev' = [t |-> t, call |-> "none", gh |-> k.gh,
                       recv |-> [req |-> "get", status |-> resp.status, fail |-> GetFailure(resp), hash |-> resp.hash]]
    /\ UNCHANGED <<token, op, args, handshake, pure>>

GetResponse(t) == GetAnswered(t, GetResponses)

\* faulty variant: a failed upload empties the cache only when the cache
\* still holds the header set the upload was sent with
PostAnswered_ClearOwn(t, errors) ==
    /\ pc[t] = "post"
    /\ \/ /\ Apply(t, Done(Ret(PyTrue), hdr[t], parent[t]), cnt[t])
          /\ ev' = [t |-> t, call |-> "none", gh |-> FALSE,
                    recv |-> [req |-> "post", status |-> "ok", fail |-> "none", hash |-> None]]
          /\ UNCHANGED <<cached, cause>>
       \/ \E e \in errors :
          /\ cached' = IF cached = hdr[t] THEN None ELSE cached
          /\ cause' = e
          /\ Apply(t, Done(Raise("RequestException"), hdr[t], parent[t]), cnt[t])
          /\ ev' = [t |-> t, call |-> "none", gh |-> FALSE,
                    recv |-> [req |-> "post", status |-> e, fail |-> "request", hash |-> None]]
    /\ UNCHANGED <<token, op, args, handshake, pure>>

\* the upload POST of caller t is answered (lines 573-593 and 668-688), with
\* success or with one of the failures in errors
PostAnswered(t, errors) ==
    /\ pc[t] = "post"
    /\ \/ /\ Apply(t, Done(Ret(PyTrue), hdr[t], parent[t]), cnt[t])
          /\ ev' = [t |-> t, call |-> "none", gh |-> FALSE,
                    recv |-> [req |-> "post", status |-> "ok", fail |-> "none", hash |-> None]]
          /\ UNCHANGED <<cached, cause>>
       \/ \E e \in errors :
          /\ cached' = None
          /\ cause' = e
          /\ Apply(t, Done(Raise("RequestException"), hdr[t], parent[t]), cnt[t])
          /\ ev' = [t |-> t, call |-> "none", gh |-> FALSE,
                    recv |-> [req |-> "post", status |-> e, fail |-> "request", hash |-> None]]
    /\ UNCHANGED <<token, op, args, handshake, pure>>

PostResponse(t) == PostAnswered(t, HttpErrors)

\* the caller takes the result of its operation and is free to call again
Return(t) ==
    /\ pc[t] = "done"
    /\ pc' = [pc EXCEPT ![t] = "idle"]
    /\ op' = [op EXCEPT ![t] = "none"]
    /\ args' = [args EXCEPT ![t] = NoArgs]
    /\ hdr' = [hdr EXCEPT ![t] = None]
    /\ parent' = [parent EXCEPT ![t] = None]
    /\ ret' = [ret EXCEPT ![t] = Pending]
    /\ cnt' = [cnt EXCEPT ![t] = Zero]
    /\ ev' = [t |-> t, call |-> "return", gh |-> FALSE, recv |-> NoRecv]
    /\ UNCHANGED <<token, cached, inflight, cause, handshake, pure>>

\* --------------------------------------- helper functions on their own
\* _parse_cookies_from_set_cookie_headers is applied to a response
ParseCookies ==
    /\ pure.fn \in {"parse", "parseAttrs"} /\ ~pure.done
    /\ pure' = [pure EXCEPT !.done = TRUE,
                   !.out = ParseCookiesFromSetCookieHeaders(
                               IF pure.arg.resp = "list" THEN ListResponse(pure.arg.lines)
                               ELSE WireResponse(pure.arg.lines))]
    /\ UNCHANGED clientVars

\* _is_binary_file is applied to a path
ClassifyFile ==
    /\ pure.fn = "classify" /\ ~pure.done
    /\ pure' = [pure EXCEPT !.done = TRUE, !.out = IsBinaryFileResult(pure.arg.file, pure.arg.force)]
    /\ UNCHANGED clientVars

Step(t) ==
    \/ CallGetHeaders(t)
    \/ CallGetLatestCommitHash(t)
    \/ CallGetBranchInfo(t)
    \/ CallSaveFile(t)
    \/ CallSaveMultipleFiles(t)
    \/ ClearHeadersCache(t)
    \/ BootResponse(t)
    \/ GetResponse(t)
    \/ PostResponse(t)
    \/ Return(t)

Next == \E t \in Callers : Step(t)

Spec == Init /\ [][Next]_vars

PureInputs ==
    { [fn |-> "parse", arg |-> a, done |-> FALSE, out |-> <<>>] : a \in ParserInputs }
    \cup { [fn |-> "classify", arg |-> a, done |-> FALSE, out |-> <<>>] : a \in ClassifierInputs }
    \cup { [fn |-> "parseAttrs", arg |-> a, done |-> FALSE, out |-> <<>>] : a \in AttrParserInputs }

PureInit == Start(Callers) /\ pure \in PureInputs

PureNext ==
    \/ ParseCookies
    \/ ClassifyFile

SpecPure == PureInit /\ [][PureNext]_vars

\* ------------------------------------------ two callers share the client
\* Two threads use one client object with no lock between them: the steps of
\* their calls interleave at every blocking request.  The inputs are a part
\* of those of the single caller.
ConcCallers == {1, 2}

ConcErrors == {"HTTP401"}

ConcBootOk ==
    { r \in BootOk : r.hdrs \in {WireResponse(<<LineX1>>), WireResponse(<<LineC1, LineXEq>>), WireResponse(<<LineC1>>)} }

ConcGetResponses == { r \in GetResponses : r.hash = HashA \/ r.status \in ConcErrors }

ConcSaveArgs ==
    { a \in SaveArgs : a.path = PathTxt /\ a.repo = None /\ a.force = None /\ a.parentArg = None }

ConcCallSaveFile(t) ==
    \E a \in ConcSaveArgs : Call(t, "save", a, SaveFile(cached, token, a))

ConcBootResponse(t) == BootAnswered(t, ConcErrors, ConcBootOk)

ConcGetResponse(t) == GetAnswered(t, ConcGetResponses)

ConcPostResponse(t) == PostAnswered(t, ConcErrors)

ConcStep(t) ==
    \/ CallGetHeaders(t)
    \/ CallGetLatestCommitHash(t)
    \/ ConcCallSaveFile(t)
    \/ ClearHeadersCache(t)
    \/ ConcBootResponse(t)
    \/ ConcGetResponse(t)
    \/ ConcPostResponse(t)
    \/ Return(t)

ConcInit == Start(ConcCallers) /\ pure = NoPure

ConcNext == \E t \in ConcCallers : ConcStep(t)

SpecConc == ConcInit /\ [][ConcNext]_vars

\* ===================================================================
\* Properties
\* ===================================================================

\* the bootstrap requests caller t had sent before the step now being taken
BootsBefore(t) == IF pc[t] = "idle" THEN 0 ELSE cnt[t].boot

\* C1: a step in which a caller invokes _get_robotic_headers while the cache
\* holds a header set hands the caller that very header set, leaves the cache
\* as it was and sends no bootstrap request.
C1_CacheHitNoNetwork ==
    [][\A t \in Callers :
          (ev'.t = t /\ ev'.gh /\ cached # None) =>
             /\ hdr'[t] = cached
             /\ cached' = cached
             /\ pc'[t] # "boot"
             /\ inflight'[t].kind # "boot"
             /\ cnt'[t].boot = BootsBefore(t)
             /\ (op'[t] = "headers" => pc'[t] = "done" /\ ret'[t] = Ret(cached) /\ cnt'[t] = Zero)]_vars

\* C1 witness: a get_headers call answered from the cache, with no request sent
C1_Witness ==
    \E t \in Callers :
        /\ op[t] = "headers" /\ pc[t] = "done" /\ ev.gh
        /\ cached # None /\ ret[t] = Ret(cached) /\ cnt[t] = Zero

\* C2: once the cache has been emptied by clear_headers_cache or by a failed
\* request, a caller that invokes _get_robotic_headers sends one bootstrap
\* request to the robots endpoint with the token only; the step that consumes
\* the answer sends no further bootstrap request, and when the answer is a 2xx
\* response that sets a non-empty PACE-XSRF-TOKEN the cache holds a header set
\* again, the one handed to the caller.
C2_RebootAfterInvalidate ==
    [][\A t \in Callers :
          /\ (ev'.t = t /\ ev'.gh /\ cached = None /\ cause # "init") =>
                /\ pc'[t] = "boot"
                /\ inflight'[t] = BootReq(token)
                /\ cnt'[t].boot = BootsBefore(t) + 1
                /\ cached' = None
          /\ (ev'.t = t /\ pc[t] = "boot") =>
                /\ pc'[t] # "boot"
                /\ cnt'[t].boot = cnt[t].boot
                /\ (ev'.recv.fail = "none" => cached' # None /\ hdr'[t] = cached')]_vars

\* C2 witness: after an upload failed with 401 and emptied the cache, a call
\* has sent its one bootstrap request and the cache is filled again
C2_Witness ==
    \E t \in Callers :
        /\ cause = "HTTP401" /\ ev.recv.req = "boot" /\ ev.recv.fail = "none"
        /\ cached # None /\ cnt[t].boot = 1

\* C3: in the state a files GET or an upload POST that failed with a network
\* or HTTP-status error leaves behind, the operation has ended, reporting the
\* failure, and the cache is empty.
C3_RequestFailureEmptiesCache ==
    \A t \in Callers :
        (ev.t = t /\ ev.recv.req \in {"get", "post"} /\ ev.recv.fail = "request") =>
            /\ cached = None
            /\ pc[t] = "done"
            /\ ret[t] = IF op[t] = "branch" THEN Ret(None) ELSE Raise("RequestException")

\* C3 witness: the lookup GET of a save_multiple_files call failed; the cache,
\* filled by an earlier handshake, is now empty
C3_Witness ==
    \E t \in Callers :
        /\ op[t] = "multi" /\ ev.recv.req = "get" /\ ev.recv.fail = "request"
        /\ handshake.xsrf # None /\ cached = None /\ ret[t].kind = "raise"

\* C4: in the state a failed bootstrap leaves behind (the request failed, or
\* the 2xx response sets no PACE-XSRF-TOKEN value) nothing is cached, the
\* caller holds no header set and its operation has ended without one.
C4_FailedBootstrapStaysEmpty ==
    \A t \in Callers :
        (ev.t = t /\ ev.recv.req = "boot" /\ ev.recv.fail \in {"request", "notoken"}) =>
            /\ cached = None
            /\ hdr[t] = None
            /\ pc[t] = "done"
            /\ ret[t].kind = "return"
            /\ ret[t].val \in {None, PyFalse}
            /\ (op[t] = "headers" => ret[t] = Ret(None))

\* C4 witness: get_headers returned None on a 2xx response without the token
C4_Witness ==
    \E t \in Callers :
        /\ op[t] = "headers" /\ ev.recv.req = "boot" /\ ev.recv.fail = "notoken"
        /\ cached = None /\ ret[t] = Ret(None)

\* the header set C5 expects from the cookies jar of a handshake
ExpectedHeaders(tok, jar) ==
    << <<"Content-Type", AppJson>>,
       <<"X-Authorization", tok>>,
       <<"Cookie", IF Present(jar.csrf)
                   THEN Concat(<<CsrfName, <<"=">>, jar.csrf, <<";", " ">>, XsrfName, <<"=">>, jar.xsrf>>)
                   ELSE Concat(<<XsrfName, <<"=">>, jar.xsrf>>)>>,
       <<"X-XSRF-TOKEN", jar.xsrf>> >>

\* C5: in the state a successful bootstrap leaves behind, the header set
\* cached and handed to the caller has exactly Content-Type application/json,
\* X-Authorization the access token, X-XSRF-TOKEN the PACE-XSRF-TOKEN value,
\* and Cookie "_pace-csrf=<v>; PACE-XSRF-TOKEN=<v>" when the response set
\* _pace-csrf to a value, "PACE-XSRF-TOKEN=<v>" otherwise.
C5_DerivedHeaderSet ==
    \A t \in Callers :
        (ev.t = t /\ ev.recv.req = "boot" /\ ev.recv.fail = "none") =>
            /\ cached = ExpectedHeaders(token, handshake)
            /\ hdr[t] = cached
            /\ Present(handshake.xsrf)

\* C5 witness: a handshake that delivered both cookies, the token value
\* containing "="
C5_Witness ==
    \E t \in Callers :
        /\ ev.recv.req = "boot" /\ ev.recv.fail = "none"
        /\ Present(handshake.csrf)
        /\ Contains(handshake.xsrf, "=")
        /\ cached # None /\ Lookup(cached, "X-XSRF-TOKEN") = handshake.xsrf

\* the commit-hash lookup of the step just taken failed: its bootstrap failed
\* or its files GET failed
LookupFailed ==
    \/ ev.recv.req = "boot" /\ ev.recv.fail \in {"request", "notoken"}
    \/ ev.recv.req = "get" /\ ev.recv.fail = "request"

\* C6 (as claimed): when the commit-hash lookup of a save_file call without
\* parent_commit_hash fails, the call has returned False and has sent no
\* upload request.
C6_LookupFailureReturnsFalse ==
    \A t \in Callers :
        (ev.t = t /\ op[t] = "save" /\ args[t].parentArg = None /\ LookupFailed) =>
            /\ pc[t] = "done"
            /\ ret[t] = Ret(PyFalse)
            /\ cnt[t].post = 0

EntryExists(e) == \E f \in FileSystem : f.path = e.local_path /\ f.exists

EntryReadable(e) ==
    ReadFileContent(e.local_path, IsBinaryFile(e.local_path, e.force_binary)).ok

ExistingEntries(batch) == SelectSeq(batch, EntryExists)

AllReadable(batch) ==
    \A i \in 1..Len(batch) : EntryExists(batch[i]) => EntryReadable(batch[i])

\* the operations list is one replace operation per existing entry, in order
OperationsMatch(operations, batch) ==
    LET ex == ExistingEntries(batch)
    IN  /\ Len(operations) = Len(ex)
        /\ \A i \in 1..Len(ex) :
              /\ Lookup(operations[i], "op") = OpReplace
              /\ Lookup(operations[i], "path") =
                    (IF ex[i].repo_path = None THEN Basename(ex[i].local_path) ELSE ex[i].repo_path)
              /\ Lookup(operations[i], "value")[2] = File(ex[i].local_path).data

\* the call of caller t got both its parent hash and its session headers
HeadersAndParent(t) == parent[t] # None /\ hdr[t] # None

\* C7 (amended): a save_multiple_files call that has its parent hash and its
\* session headers, with at least one existing file in the batch and no
\* existing file failing its UTF-8 read, sends exactly one upload request;
\* the operations of every upload request it sends are one per existing
\* file, in input order, none for the missing files.
C7_BatchOneRequestSurvivors ==
    \A t \in Callers :
        op[t] = "multi" =>
            /\ cnt[t].post <= 1
            /\ (pc[t] = "post" =>
                    /\ cnt[t].post = 1
                    /\ OperationsMatch(Lookup(inflight[t].body, "operations"), args[t].batch))
            /\ (/\ pc[t] = "done" /\ HeadersAndParent(t)
                /\ ExistingEntries(args[t].batch) # <<>> /\ AllReadable(args[t].batch)
                => cnt[t].post = 1 /\ ev.recv.req = "post")

\* C7 witness: one missing file among three, one request with two operations
C7_Witness ==
    \E t \in Callers :
        /\ op[t] = "multi" /\ pc[t] = "post" /\ cnt[t].post = 1
        /\ Len(args[t].batch) = 3
        /\ Len(ExistingEntries(args[t].batch)) = 2
        /\ Len(Lookup(inflight[t].body, "operations")) = 2

\* C7 (as claimed): any batch with at least one existing file, parent hash
\* and session headers available, ends with exactly one upload request sent.
C7_Original ==
    \A t \in Callers :
        (/\ op[t] = "multi" /\ pc[t] = "done" /\ HeadersAndParent(t)
         /\ ExistingEntries(args[t].batch) # <<>>)
        => cnt[t].post = 1

AllMissing(batch) == \A i \in 1..Len(batch) : ~EntryExists(batch[i])

\* C8 (amended): a save_multiple_files call whose listed files are all
\* missing never sends an upload request; it sends no files GET when the
\* parent hash was supplied; and it ends returning False, unless its
\* commit-hash lookup raised.
C8_AllMissingNoUpload ==
    \A t \in Callers :
        (op[t] = "multi" /\ AllMissing(args[t].batch)) =>
            /\ cnt[t].post = 0
            /\ pc[t] # "post"
            /\ (args[t].parentArg # None => cnt[t].get = 0)
            /\ (pc[t] = "done" =>
                    \/ ret[t] = Ret(PyFalse)
                    \/ ret[t].kind = "raise" /\ ev.recv.req = "get" /\ args[t].parentArg = None)

\* C8 witness: all files missing, and the call returned False after a
\* bootstrap request and a commit-hash lookup
C8_Witness ==
    \E t \in Callers :
        /\ op[t] = "multi" /\ pc[t] = "done" /\ args[t].batch # <<>>
        /\ AllMissing(args[t].batch)
        /\ ret[t] = Ret(PyFalse) /\ cnt[t] = [boot |-> 1, get |-> 1, post |-> 0]

\* C8 (as claimed): with every listed file missing the call returns False
\* and issues no request at all.
C8_Original ==
    \A t \in Callers :
        (op[t] = "multi" /\ AllMissing(args[t].batch)) =>
            /\ cnt[t] = Zero
            /\ pc[t] \notin {"boot", "get", "post"}
            /\ (pc[t] = "done" => ret[t] = Ret(PyFalse))

\* C9: a save_file call on a path that does not exist ends at once with
\* FileNotFoundError: no request is sent and the cache is left as it was.
C9_MissingFileNoEffect ==
    [][\A t \in Callers :
          (/\ pc[t] = "idle" /\ op'[t] = "save"
           /\ \E f \in FileSystem : f.path = args'[t].path /\ ~f.exists) =>
             /\ pc'[t] = "done"
             /\ ret'[t] = Raise("FileNotFoundError")
             /\ cnt'[t] = Zero
             /\ inflight'[t] = NoReq
             /\ cached' = cached]_vars

\* C9 witness: save_file raised FileNotFoundError with a header set cached
C9_Witness ==
    \E t \in Callers :
        /\ op[t] = "save" /\ pc[t] = "done" /\ ret[t] = Raise("FileNotFoundError")
        /\ args[t].parentArg = None /\ cnt[t] = Zero /\ cached # None

\* the step just taken by caller t was a failed session derivation
DerivationFailed(t) ==
    ev.t = t /\ ev.recv.req = "boot" /\ ev.recv.fail \in {"request", "notoken"}

\* C10 (amended): a failed session derivation ends the operation with a
\* return value, never an error: None from get_latest_commit_hash and from
\* get_branch_info, False from save_file and save_multiple_files.
C10_DerivationFailureIsReturned ==
    \A t \in Callers :
        DerivationFailed(t) =>
            /\ pc[t] = "done"
            /\ (op[t] \in {"hash", "branch"} => ret[t] = Ret(None))
            /\ (op[t] \in {"save", "multi"} => ret[t] = Ret(PyFalse))

\* C10 witness: save_file returned False when its bootstrap request failed
C10_Witness ==
    \E t \in Callers :
        /\ DerivationFailed(t) /\ ev.recv.fail = "request"
        /\ op[t] = "save" /\ ret[t] = Ret(PyFalse)

\* C10 (as claimed): a failed session derivation reaches the caller of
\* save_file, save_multiple_files and get_latest_commit_hash as an error;
\* only get_branch_info returns None.
C10_Original ==
    \A t \in Callers :
        DerivationFailed(t) =>
            /\ (op[t] \in {"hash", "save", "multi"} => ret[t].kind = "raise")
            /\ (op[t] = "branch" => ret[t] = Ret(None))

\* ---------------------------------------------------------------- C11
\* the bootstrap or the files GET of the step just taken failed in one of the
\* ways get_branch_info is said to absorb: request failure, no token cookie,
\* a body that is not JSON, a body without the branch field
BranchInfoFailed ==
    \/ ev.recv.req = "boot" /\ ev.recv.fail \in {"request", "notoken"}
    \/ ev.recv.req = "get" /\ ev.recv.fail \in {"request", "parse", "type"}

\* C11 (as claimed): a finished get_branch_info call has never raised; it has
\* returned None when its bootstrap or its files GET failed or the body was
\* not JSON or had no branch field, and a branch object otherwise.
C11_BranchInfoNeverRaises ==
    \A t \in Callers :
        (ev.t = t /\ op[t] = "branch" /\ pc[t] = "done") =>
            /\ ret[t].kind = "return"
            /\ BranchInfoFailed => ret[t] = Ret(None)
            /\ ~BranchInfoFailed => ret[t].val # None

\* ---------------------------------------------------------------- C12
\* C12: applied to a list of raw Set-Cookie values, the parser returns exactly
\* the cookies the server set: every segment between commas contributes the
\* text before its first ";" split at its first "=" only, so a value keeps
\* every "=" it contains; ["a=1; Path=/", "b=2; Secure, c=3"] gives
\* {a:1, b:2, c:3}.  The raw list is what the parser iterates when the
\* transport hands the values over one by one (get_list).
C12_ParserYieldsTheCookiesSet ==
    (pure.fn = "parse" /\ pure.done /\ pure.arg.resp = "list") => pure.out = pure.arg.jar

\* C12 witness: the example of the claim has been parsed, and so has a cookie
\* whose value contains "="
C12_Witness ==
    /\ pure.fn = "parse" /\ pure.done /\ pure.arg.resp = "list"
    /\ \/ pure.arg.lines = ExampleLines /\ pure.out = ExampleJar
       \/ pure.arg.lines = <<<<"a","=","e","y",".","J","=","x",";"," ","P","a","t","h","=","/">>>> /\ pure.out[<<"a">>] = <<"e","y",".","J","=","x">>

\* ---------------------------------------------------------------- C13
\* C13: the classifier returns an explicit override (true or false)
\* unchanged, whatever the path, the MIME type and the content, and whether
\* or not the file exists; without an override every path whose extension is,
\* letter case ignored, a known binary extension is classified binary,
\* whatever its content.
C13_OverrideThenExtension ==
    (pure.fn = "classify" /\ pure.done) =>
        /\ pure.arg.force # None => pure.out = pure.arg.force
        /\ (pure.arg.force = None /\ pure.arg.binExt) => pure.out = PyTrue

\* C13 witness: Q.XLS, holding UTF-8 text and guessed text/plain, has been
\* classified binary without an override
C13_Witness ==
    /\ pure.fn = "classify" /\ pure.done /\ pure.out = PyTrue
    /\ pure.arg.force = None /\ pure.arg.file.path = <<"Q",".","X","L","S">>
    /\ pure.arg.file.prefixOk /\ pure.arg.file.mime = <<"t","e","x","t","/","p","l","a","i","n">>

\* ---------------------------------------------------------------- C14
\* the base name of each local file of the file system, written out
BaseNames ==
    { <<PathXlsx, <<"r","e","p","o","r","t",".","x","l","s","x">>>>, <<PathTxt, <<"n","o","t","e","s",".","t","x","t">>>>, <<PathGone, <<"g","o","n","e",".","t","x","t">>>>,
      <<PathBad, <<"b","a","d",".","t","x","t">>>>, <<PathLate, <<"l","a","t","e",".","t","x","t">>>>, <<PathJson, <<"d","a","t","a",".","j","s","o","n">>>> }

\* C14: the upload request of a save_file call given neither repository_path
\* nor force_binary carries exactly one operation: its path is the base name
\* of the local file, its op is "replace", and its encoding is "base64" when
\* the classifier says binary (report.xlsx is) and "utf-8" otherwise; a call
\* that returned True has sent exactly one such request.
C14_DefaultPathAndEncoding ==
    \A t \in Callers :
        (op[t] = "save" /\ args[t].repo = None /\ args[t].force = None) =>
            /\ pc[t] = "post" =>
                 LET ops == Lookup(inflight[t].body, "operations")
                 IN  /\ Len(ops) = 1
                     /\ <<args[t].path, Lookup(ops[1], "path")>> \in BaseNames
                     /\ Lookup(ops[1], "op") = <<"r","e","p","l","a","c","e">>
                     /\ Lookup(ops[1], "encoding") =
                            IF IsBinaryFile(args[t].path, None) THEN <<"b","a","s","e","6","4">> ELSE <<"u","t","f","-","8">>
                     /\ args[t].path = PathXlsx => Lookup(ops[1], "encoding") = <<"b","a","s","e","6","4">>
            /\ (pc[t] = "done" /\ ret[t] = Ret(PyTrue)) => cnt[t].post = 1

\* C14 witness: out/report.xlsx is being uploaded as report.xlsx, base64
C14_Witness ==
    \E t \in Callers :
        /\ op[t] = "save" /\ args[t].repo = None /\ args[t].force = None
        /\ pc[t] = "post" /\ args[t].path = PathXlsx
        /\ Lookup(Lookup(inflight[t].body, "operations")[1], "path") = <<"r","e","p","o","r","t",".","x","l","s","x">>

\* ---------------------------------------------------------------- C15
\* C15: clear_headers_cache can be called whenever the caller is not inside
\* another call, whatever the cache holds; the call sends no request and
\* leaves the cache empty, and it is idempotent: called on the empty cache a
\* first call leaves, it changes neither the cache nor the token.
C15_ClearAlwaysEmptiesIdempotent ==
    [][\A t \in Callers :
          /\ pc[t] = "idle" => ENABLED ClearHeadersCache(t)
          /\ (pc[t] = "idle" /\ op'[t] = "clear") =>
                /\ cached' = None
                /\ pc'[t] = "done" /\ ret'[t] = Ret(None)
                /\ cnt'[t] = Zero /\ inflight'[t] = NoReq
                /\ cached = None => (cached' = cached /\ token' = token)]_vars

\* C15 witness: a clear_headers_cache call made after a handshake has
\* returned, without a request, and the cache is empty
C15_Witness ==
    \E t \in Callers :
        /\ op[t] = "clear" /\ pc[t] = "done" /\ cached = None
        /\ cause = "clear" /\ handshake.xsrf # None /\ cnt[t] = Zero

\* ---------------------------------------------------------------- C16
\* C16 (as claimed): with two callers on one client, the bootstraps of the
\* session cache exclude each other: never are two bootstrap requests in
\* flight at once.
C16_BootstrapMutuallyExcluded ==
    \A t, u \in DOMAIN pc : (pc[t] = "boot" /\ pc[u] = "boot") => t = u


\* C16 (amended): the client does not exclude concurrent bootstraps.  A
\* caller that invokes _get_robotic_headers while the cache is empty sends a
\* bootstrap request of its own, whether or not another caller's bootstrap is
\* in flight, and every successful bootstrap stores the header set of its own
\* handshake and goes on with it, replacing what another caller stored in
\* the meantime.
C16_EveryEmptyReadBootstraps ==
    [][\A t \in DOMAIN pc :
          /\ (ev'.t = t /\ ev'.gh /\ cached = None) =>
                /\ pc'[t] = "boot"
                /\ cnt'[t].boot = BootsBefore(t) + 1
          /\ (pc[t] = "boot" /\ ev'.t = t /\ ev'.recv.req = "boot" /\ ev'.recv.fail = "none") =>
                /\ cached' = ExpectedHeaders(token, handshake')
                /\ hdr'[t] = cached']_vars

\* C16 witness: both callers found the cache empty and both bootstrap
\* requests are in flight
C16_Witness ==
    /\ DOMAIN pc = ConcCallers
    /\ \A t \in ConcCallers : pc[t] = "boot" /\ inflight[t].kind = "boot"
    /\ cached = None

\* ---------------------------------------------------------------- C17
\* the last "; "-separated part of a Cookie header
LastCookiePart(cookie) ==
    LET i == LastIndex(cookie, ";")
    IN  IF i = 0 THEN cookie ELSE SubSeq(cookie, i + 2, Len(cookie))

\* h is one complete header set: its four headers, the access token, a
\* non-empty X-XSRF-TOKEN, and the same value as PACE-XSRF-TOKEN in Cookie
CompleteHeaderSet(h) ==
    /\ Len(h) = 4
    /\ {h[i][1] : i \in 1..4} = {"Content-Type", "X-Authorization", "Cookie", "X-XSRF-TOKEN"}
    /\ Lookup(h, "Content-Type") = <<"a","p","p","l","i","c","a","t","i","o","n","/","j","s","o","n">>
    /\ Lookup(h, "X-Authorization") = token
    /\ Lookup(h, "X-XSRF-TOKEN") \notin {None, <<>>}
    /\ LastCookiePart(Lookup(h, "Cookie")) = <<"P","A","C","E","-","X","S","R","F","-","T","O","K","E","N","=">> \o Lookup(h, "X-XSRF-TOKEN")

\* the header sets successful handshakes can produce, one handshake each
HandshakeHeaderSets ==
    { ExpectedHeaders(token, [csrf |-> r.csrf, xsrf |-> r.xsrf]) : r \in {x \in BootOk : Present(x.xsrf)} }

\* C17: with two callers racing to bootstrap and to invalidate, the cache,
\* every caller's local headers and the headers of every request made with
\* the session are either absent or one complete header set that a single
\* handshake produced, never a partial or mixed one.
C17_CacheAbsentOrComplete ==
    /\ cached # None => (CompleteHeaderSet(cached) /\ cached \in HandshakeHeaderSets)
    /\ \A t \in DOMAIN pc :
          /\ hdr[t] # None => (CompleteHeaderSet(hdr[t]) /\ hdr[t] \in HandshakeHeaderSets)
          /\ pc[t] \in {"get", "post"} =>
                (CompleteHeaderSet(inflight[t].headers) /\ inflight[t].headers \in HandshakeHeaderSets)

\* C17 witness: one caller's stored header set has been replaced by the other
\* caller's, from a different handshake, while the first still uses its own
C17_Witness ==
    \E t \in DOMAIN pc :
        /\ pc[t] \in {"get", "post"} /\ cached # None /\ inflight[t].headers # cached
        /\ Lookup(cached, "X-XSRF-TOKEN") # Lookup(inflight[t].headers, "X-XSRF-TOKEN")

\* ---------------------------------------------------------------- C18
\* C18 (as claimed): after get_latest_commit_hash or get_branch_info has
\* received a body that is not valid JSON, or one lacking branch (for
\* get_latest_commit_hash also branch.commitHash), the cache is empty.
C18_ParseFailureEmptiesCache ==
    \A t \in Callers :
        (ev.t = t /\ ev.recv.req = "get" /\
         (ev.recv.fail = "parse" \/ (ev.recv.fail = "nohash" /\ op[t] # "branch"))) =>
            cached = None

\* C18 (amended): of the parse failures only those of get_branch_info always
\* empty the cache: a body that is not JSON, or a JSON object without
\* branch, makes it return None with the cache empty.  In
\* get_latest_commit_hash a JSON object without branch or branch.commitHash
\* raises KeyError and the cache stays as it was; a body that is not JSON
\* raises, and empties the cache exactly when the error raised is a
\* RequestException, leaving it as it was when it is a plain ValueError.
C18_ParseFailureClearsOnlyInBranchInfo ==
    [][\A t \in Callers :
          (pc[t] = "get" /\ ev'.t = t /\ ev'.recv.req = "get") =>
              /\ (op[t] = "branch" /\ ev'.recv.fail = "parse") =>
                    (cached' = None /\ ret'[t] = Ret(None))
              /\ (op[t] # "branch" /\ ev'.recv.fail \in {"parse", "nohash"}) =>
                    /\ ret'[t] \in {Raise("KeyError"), Raise("ValueError"), Raise("RequestException")}
                    /\ ev'.recv.fail = "nohash" => ret'[t] = Raise("KeyError")
                    /\ ret'[t] \in {Raise("KeyError"), Raise("ValueError")} => cached' = cached
                    /\ ret'[t] = Raise("RequestException") => cached' = None]_vars

\* C18 witness: get_latest_commit_hash got a branch without commitHash,
\* raised KeyError, and the cache still holds the header set
C18_Witness ==
    \E t \in Callers :
        /\ op[t] = "hash" /\ pc[t] = "done" /\ ev.recv.req = "get" /\ ev.recv.fail = "nohash"
        /\ ret[t] = Raise("KeyError") /\ cached # None /\ cached = hdr[t]

\* ---------------------------------------------------------------- C19
\* C19: within one call of any public operation, from any cache state and on
\* every path, the client sends at most one bootstrap request, at most one
\* files GET and at most one upload POST; a failed upload ends the call, its
\* request is not sent again.
C19_AtMostOneRequestOfEachKind ==
    \A t \in Callers :
        /\ cnt[t].boot <= 1 /\ cnt[t].get <= 1 /\ cnt[t].post <= 1
        /\ (ev.t = t /\ ev.recv.fail # "none" /\ ev.recv.req = "post") =>
              (pc[t] = "done" /\ inflight[t] = NoReq /\ cnt[t].post = 1)

\* C19 witness: a batch upload that needed a bootstrap and a lookup has
\* failed, and the call has ended after one request of each kind
C19_Witness ==
    \E t \in Callers :
        /\ op[t] = "multi" /\ pc[t] = "done" /\ ret[t].kind = "raise"
        /\ ev.recv.req = "post" /\ ev.recv.fail = "request"
        /\ cnt[t] = [boot |-> 1, get |-> 1, post |-> 1]

\* ---------------------------------------------------------------- C20
\* C20: a save_file or save_multiple_files call given parent_commit_hash
\* sends no files GET, and its upload carries that value as parentCommitHash;
\* a call not given one has made exactly one lookup when it uploads, and the
\* upload carries the hash that lookup returned.  No hash is kept between
\* calls: a get_latest_commit_hash call that has session headers sends a
\* files GET, and the hash it returns is the one this GET delivered.
C20_ParentHashResolution ==
    \A t \in Callers :
        /\ (op[t] \in {"save", "multi"} /\ args[t].parentArg # None) =>
              /\ cnt[t].get = 0
              /\ pc[t] = "post" => Lookup(inflight[t].body, "parentCommitHash") = args[t].parentArg
        /\ (op[t] \in {"save", "multi"} /\ args[t].parentArg = None /\ pc[t] = "post") =>
              /\ cnt[t].get = 1
              /\ ev.recv.req = "get" /\ ev.recv.fail = "none"
              /\ Lookup(inflight[t].body, "parentCommitHash") = ev.recv.hash
        /\ (op[t] = "hash" /\ hdr[t] # None) =>
              /\ cnt[t].get = 1
              /\ (pc[t] = "done" /\ ret[t].kind = "return") =>
                    (ev.recv.req = "get" /\ ret[t].val = ev.recv.hash)

\* C20 witness: a batch without parent_commit_hash is being uploaded on top
\* of the hash its one lookup returned
C20_Witness ==
    \E t \in Callers :
        /\ op[t] = "multi" /\ args[t].parentArg = None /\ pc[t] = "post"
        /\ cnt[t].get = 1 /\ ev.recv.hash = HashB
        /\ Lookup(inflight[t].body, "parentCommitHash") = HashB

\* ---------------------------------------------------------------- C21
\* C21: every upload POST of save_file and save_multiple_files carries
\* X-Authorization, Cookie and a non-empty X-XSRF-TOKEN, all of the header
\* set _get_robotic_headers handed out in the same call (in the step that
\* sent the request: from the cache, or from the handshake just answered);
\* it goes to branch=main with a non-empty operations list of "replace"
\* operations only.  When _get_robotic_headers reports failure the call ends
\* without an upload.
C21_UploadCarriesSessionHeaders ==
    \A t \in Callers :
        /\ pc[t] = "post" =>
              LET rq  == inflight[t]
                  ops == Lookup(rq.body, "operations")
              IN  /\ op[t] \in {"save", "multi"}
                  /\ rq.kind = "post"
                  /\ ev.t = t /\ (ev.gh \/ (ev.recv.req = "boot" /\ ev.recv.fail = "none"))
                  /\ rq.headers = cached /\ CompleteHeaderSet(rq.headers)
                  /\ HasKey(rq.headers, "X-Authorization") /\ HasKey(rq.headers, "Cookie")
                  /\ HasKey(rq.headers, "X-XSRF-TOKEN")
                  /\ Lookup(rq.headers, "X-XSRF-TOKEN") \notin {None, <<>>}
                  /\ rq.params = << <<"branch", <<"m","a","i","n">>>> >>
                  /\ ops # <<>>
                  /\ \A i \in 1..Len(ops) : Lookup(ops[i], "op") = <<"r","e","p","l","a","c","e">>
        /\ (ev.t = t /\ ev.recv.req = "boot" /\ ev.recv.fail # "none") =>
              (pc[t] = "done" /\ cnt[t].post = 0 /\ inflight[t] = NoReq)

\* C21 witness: a batch of two files is being uploaded with the headers of
\* the handshake the call itself made
C21_Witness ==
    \E t \in Callers :
        /\ op[t] = "multi" /\ pc[t] = "post" /\ cnt[t].boot = 1
        /\ Len(Lookup(inflight[t].body, "operations")) = 2
        /\ Lookup(inflight[t].headers, "X-XSRF-TOKEN") = handshake.xsrf

\* ---------------------------------------------------------------- C22
\* the Cookie header has a _pace-csrf segment
HasCsrfSegment(h) == StartsWith(Lookup(h, "Cookie"), <<"_","p","a","c","e","-","c","s","r","f","=">>)

\* C22: whatever bootstraps, invalidations and re-bootstraps came before, a
\* filled cache holds the Cookie and X-XSRF-TOKEN built from the cookies of
\* the most recent successful handshake alone: nothing of an earlier
\* handshake is merged in, so when the latest response set no _pace-csrf the
\* cached Cookie header has no _pace-csrf segment.
C22_LastHandshakeWinsEntirely ==
    cached # None =>
        /\ cached = ExpectedHeaders(token, handshake)
        /\ Lookup(cached, "X-XSRF-TOKEN") = handshake.xsrf
        /\ ~Present(handshake.csrf) => ~HasCsrfSegment(cached)

\* C22 witness: a caller still holds the header set of an earlier handshake
\* that delivered _pace-csrf; the cache was invalidated since and now holds
\* the set of a later handshake that delivered none
C22_Witness ==
    \E t \in DOMAIN pc :
        /\ hdr[t] # None /\ HasCsrfSegment(hdr[t])
        /\ cached # None /\ handshake.csrf = None /\ ~HasCsrfSegment(cached)
        /\ cause # "init"

\* ---------------------------------------------------------------- C23
\* the file at path p exists, is read in text mode under override fb, and
\* does not decode as UTF-8
UndecodableText(p, fb) ==
    \E f \in FileSystem :
        /\ f.path = p /\ f.exists /\ ~f.fullOk
        /\ \/ fb = PyFalse
           \/ fb = None /\ Splitext(Lower(p)) \notin BINARY_EXTENSIONS
                        /\ StartsWith(f.mime, TextSlash) /\ f.prefixOk

\* the call of caller t, as it stands after a step, has files to read and
\* one of them is undecodable text
ReadsUndecodableText(o, a) ==
    \/ o = "save" /\ UndecodableText(a.path, a.force)
    \/ o = "multi" /\ \E i \in 1..Len(a.batch) :
                         UndecodableText(a.batch[i].local_path, a.batch[i].force_binary)

\* C23: a save_file or save_multiple_files call that comes to read a file in
\* text mode whose content is not valid UTF-8 ends with the decode error: the
\* read does not fall back to binary, no upload request is sent (none of the
\* files of a batch is uploaded), and the failing read leaves the cache as
\* it found it, that is as the call's own parent-hash lookup and
\* _get_robotic_headers left it.
C23_TextReadNeverFallsBack ==
    [][\A t \in Callers :
          (/\ ev'.t = t /\ ev'.call # "return" /\ op'[t] \in {"save", "multi"}
           /\ ReadsUndecodableText(op'[t], args'[t])
           /\ pc'[t] \notin {"boot", "get"}
           /\ ev'.recv.fail = "none"
           /\ ev'.recv.req = "get" => ev'.recv.hash # None) =>
              /\ pc'[t] = "done"
              /\ ret'[t] = Raise("UnicodeDecodeError")
              /\ cnt'[t].post = 0 /\ inflight'[t] = NoReq
              /\ cached' = IF ev'.recv.req = "boot" THEN hdr'[t] ELSE cached
              /\ ev'.recv.req = "boot" => cached' # None]_vars

\* C23 witness: a batch with a readable file and a file that is not UTF-8
\* under force_binary = false has ended with the decode error, nothing
\* uploaded, the cache still filled
C23_Witness ==
    \E t \in Callers :
        /\ op[t] = "multi" /\ pc[t] = "done" /\ ret[t] = Raise("UnicodeDecodeError")
        /\ Len(args[t].batch) >= 2
        /\ \E i \in 1..Len(args[t].batch) :
              args[t].batch[i].local_path = PathBad /\ args[t].batch[i].force_binary = PyFalse
        /\ cnt[t].post = 0 /\ cached # None

\* ---------------------------------------------------------------- C24
\* C24 (as claimed): of every raw Set-Cookie value only the leading
\* name=value before the first ";" of a cookie becomes an entry: the keys of
\* the result are names of cookies the server set, never an attribute or a
\* piece of one, also when an attribute value contains a comma; and a name
\* set more than once keeps the value parsed last.
C24_OnlyCookieNamesBecomeKeys ==
    (pure.fn \in {"parse", "parseAttrs"} /\ pure.done /\ pure.arg.resp = "list") =>
        /\ DOMAIN pure.out \subseteq DOMAIN pure.arg.jar
        /\ \A n \in DOMAIN pure.out \cap DOMAIN pure.arg.jar : pure.out[n] = pure.arg.jar[n]

\* ---------------------------------------------------------------- C25
\* C25 (as claimed): with two callers, a request that fails empties the cache
\* only of the header set it was sent with: when the cache holds another set,
\* stored by the other caller after the failing caller read its headers, the
\* failure leaves that set in the cache.
C25_FailureSparesFreshHeaders ==
    [][\A t \in DOMAIN pc :
          (/\ pc[t] \in {"get", "post"} /\ ev'.t = t /\ ev'.recv.fail = "request"
           /\ cached # None /\ cached # inflight[t].headers) =>
              cached' = cached]_vars

\* C25 (amended): with two callers, every failed files GET and every failed
\* upload POST empties the cache whatever it holds, the set the request was
\* sent with or a fresh one the other caller has stored since; the failing
\* call ends with the error.
C25_FailureEmptiesWhateverIsCached ==
    [][\A t \in DOMAIN pc :
          (pc[t] \in {"get", "post"} /\ ev'.t = t /\ ev'.recv.fail = "request") =>
              /\ cached' = None
              /\ pc'[t] = "done" /\ ret'[t] = Raise("RequestException")]_vars

\* C25 witness: caller u has just bootstrapped and holds the header set of
\* the latest handshake; the request of caller t, sent with an older set, has
\* failed, and the cache is empty
C25_Witness ==
    \E t, u \in DOMAIN pc :
        /\ t # u
        /\ ev.t = t /\ ev.recv.req \in {"get", "post"} /\ ev.recv.fail = "request"
        /\ op[u] = "headers" /\ pc[u] = "done" /\ cnt[u].boot = 1
        /\ hdr[u] = ExpectedHeaders(token, handshake)
        /\ hdr[t] # None /\ hdr[t] # hdr[u]
        /\ cached = None

====
